---- MODULE Spec2Model ----
(***************************************************************************)
(* Model of run.py, the entry point of the grievance application.          *)
(*                                                                         *)
(*   8   app = create_app()                                                *)
(*   10  if __name__ == '__main__':                                        *)
(*   11      port = int(os.environ.get('PORT', 5000))                      *)
(*   12      debug_mode = os.environ.get('FLASK_ENV', 'production')        *)
(*                            == 'development'                             *)
(*   13      app.run(host='0.0.0.0', port=port, debug=debug_mode)          *)
(*                                                                         *)
(* Each statement of the module body is one action.  The process           *)
(* environment, the way the module is loaded (__name__) and the behaviour  *)
(* of the external collaborators (create_app, app.run) are inputs.         *)
(***************************************************************************)
EXTENDS Integers, Sequences, FiniteSets, TLC

VARIABLES
    environ,    \* os.environ: function from variable names to their values
    name,       \* __name__ of the module: "__main__" or the import name
    pc,         \* position in the module body
    globals,    \* module namespace: app, port, debug_mode once bound
    calls,      \* sequence of the keyword arguments of each app.run call
    err,        \* uncaught exception that ended the execution, or "none"
    trace       \* observable steps of the execution, in order

vars == <<environ, name, pc, globals, calls, err, trace>>

----------------------------------------------------------------------------
(* Bounds of the explored environments *)

MaxLen == 3

Alphabet == {"0", "7", "-", "+", " ", "_", "a"}

RECURSIVE StringsUpTo(_)
StringsUpTo(n) ==
    IF n = 0 THEN {<<>>}
    ELSE LET shorter == StringsUpTo(n - 1)
         IN  shorter \cup {Append(s, c) : s \in {t \in shorter : Len(t) = n - 1}, c \in Alphabet}

PortStrings == StringsUpTo(MaxLen)

FlaskEnvStrings ==
    {"development", "Development", "DEVELOPMENT", " development",
     "development ", "", "production"}

ModuleNames == {"__main__", "run"}

----------------------------------------------------------------------------
(* Python's int(str) for base 10 *)

IsSpace(c) == c = " "

IsDigit(c) == c \in {"0", "1", "2", "3", "4", "5", "6", "7", "8", "9"}

DigitVal(c) ==
    CASE c = "0" -> 0 [] c = "1" -> 1 [] c = "2" -> 2 [] c = "3" -> 3
      [] c = "4" -> 4 [] c = "5" -> 5 [] c = "6" -> 6 [] c = "7" -> 7
      [] c = "8" -> 8 [] c = "9" -> 9

RECURSIVE LStrip(_)
LStrip(s) == IF s # <<>> /\ IsSpace(Head(s)) THEN LStrip(Tail(s)) ELSE s

RECURSIVE RStrip(_)
RStrip(s) ==
    IF s # <<>> /\ IsSpace(s[Len(s)]) THEN RStrip(SubSeq(s, 1, Len(s) - 1)) ELSE s

Strip(s) == RStrip(LStrip(s))

\* digits with single underscores allowed between two digits
ValidDigits(s) ==
    /\ s # <<>>
    /\ \A i \in 1..Len(s) :
          \/ IsDigit(s[i])
          \/ /\ s[i] = "_"
             /\ i > 1 /\ i < Len(s)
             /\ IsDigit(s[i - 1]) /\ IsDigit(s[i + 1])

RECURSIVE Accumulate(_, _)
Accumulate(s, acc) ==
    IF s = <<>> THEN acc
    ELSE IF Head(s) = "_" THEN Accumulate(Tail(s), acc)
    ELSE Accumulate(Tail(s), acc * 10 + DigitVal(Head(s)))

\* variant: the sign is recognised but not applied
PyInt_SignDropped(s) ==
    LET t    == Strip(s)
        body == IF t # <<>> /\ Head(t) \in {"+", "-"} THEN Tail(t) ELSE t
    IN  IF ValidDigits(body)
        THEN [ok |-> TRUE, value |-> Accumulate(body, 0)]
        ELSE [ok |-> FALSE, value |-> 0]

PyInt(s) ==
    LET t    == Strip(s)
        neg  == t # <<>> /\ Head(t) = "-"
        body == IF t # <<>> /\ Head(t) \in {"+", "-"} THEN Tail(t) ELSE t
    IN  IF ValidDigits(body)
        THEN [ok |-> TRUE,
              value |-> IF neg THEN 0 - Accumulate(body, 0) ELSE Accumulate(body, 0)]
        ELSE [ok |-> FALSE, value |-> 0]

----------------------------------------------------------------------------
(* Constants of run.py *)

DefaultPort == 5000

\* variant: loopback only when debugging
Host_LoopbackInDebug ==
    IF "debug_mode" \in DOMAIN globals /\ globals["debug_mode"]
    THEN "127.0.0.1" ELSE "0.0.0.0"

Host == "0.0.0.0"

\* variant: case-insensitive comparison
DebugMode_IgnoreCase(v) == v \in {"development", "Development", "DEVELOPMENT"}

DebugMode(v) == v = "development"

EnvGet(key, default) == IF key \in DOMAIN environ THEN environ[key] ELSE default

\* variant: another fallback port
ResolvePort_OtherDefault ==
    IF "PORT" \in DOMAIN environ
    THEN PyInt(environ["PORT"])
    ELSE [ok |-> TRUE, value |-> DefaultPort + 3000]

\* int(os.environ.get('PORT', 5000)): int() of the int default is the default
ResolvePort ==
    IF "PORT" \in DOMAIN environ
    THEN PyInt(environ["PORT"])
    ELSE [ok |-> TRUE, value |-> DefaultPort]

----------------------------------------------------------------------------

PortBindings == {<<>>} \cup {"PORT" :> s : s \in PortStrings}

FlaskBindings == {<<>>} \cup {"FLASK_ENV" :> v : v \in FlaskEnvStrings}

Init ==
    /\ environ \in {p @@ f : p \in PortBindings, f \in FlaskBindings}
    /\ name \in ModuleNames
    /\ pc = "create_app"
    /\ globals = <<>>
    /\ calls = <<>>
    /\ err = "none"
    /\ trace = <<>>

\* variant: the factory's exception is swallowed and the module body continues
CreateApp_Swallow ==
    /\ pc = "create_app"
    /\ \E ok \in BOOLEAN :
          globals' = IF ok THEN globals @@ ("app" :> "Flask") ELSE globals
    /\ pc' = "main_check"
    /\ trace' = Append(trace, "create_app")
    /\ UNCHANGED <<environ, name, calls, err>>

\* line 8: app = create_app(); the factory is external and may raise
CreateApp ==
    /\ pc = "create_app"
    /\ \E ok \in BOOLEAN :
          IF ok
          THEN /\ globals' = globals @@ ("app" :> "Flask")
               /\ pc' = "main_check"
               /\ err' = err
          ELSE /\ globals' = globals
               /\ pc' = "done"
               /\ err' = "FactoryError"
    /\ trace' = Append(trace, "create_app")
    /\ UNCHANGED <<environ, name, calls>>

\* variant: the __main__ guard is missing
MainCheck_NoGuard ==
    /\ pc = "main_check"
    /\ pc' = "read_port"
    /\ UNCHANGED <<environ, name, globals, calls, err, trace>>

\* line 10: if __name__ == '__main__'
MainCheck ==
    /\ pc = "main_check"
    /\ pc' = IF name = "__main__" THEN "read_port" ELSE "done"
    /\ UNCHANGED <<environ, name, globals, calls, err, trace>>

\* variant: the port is resolved at the top of the module, before the factory
ReadPort_BeforeFactory ==
    /\ pc = "create_app"
    /\ trace = <<>>
    /\ LET r == ResolvePort
       IN  IF r.ok
           THEN /\ globals' = globals @@ ("port" :> r.value)
                /\ pc' = "create_app"
                /\ err' = err
           ELSE /\ globals' = globals
                /\ pc' = "done"
                /\ err' = "ValueError"
    /\ trace' = Append(trace, "read_PORT")
    /\ UNCHANGED <<environ, name, calls>>

\* line 11: port = int(os.environ.get('PORT', 5000))
ReadPort ==
    /\ pc = "read_port"
    /\ LET r == ResolvePort
       IN  IF r.ok
           THEN /\ globals' = globals @@ ("port" :> r.value)
                /\ pc' = "read_flask_env"
                /\ err' = err
           ELSE /\ globals' = globals
                /\ pc' = "done"
                /\ err' = "ValueError"
    /\ trace' = Append(trace, "read_PORT")
    /\ UNCHANGED <<environ, name, calls>>

\* line 12: debug_mode = os.environ.get('FLASK_ENV', 'production') == 'development'
ReadFlaskEnv ==
    /\ pc = "read_flask_env"
    /\ globals' = globals @@ ("debug_mode" :> DebugMode(EnvGet("FLASK_ENV", "production")))
    /\ pc' = "app_run"
    /\ trace' = Append(trace, "read_FLASK_ENV")
    /\ UNCHANGED <<environ, name, calls, err>>

\* line 13: app.run(host='0.0.0.0', port=port, debug=debug_mode)
AppRun ==
    /\ pc = "app_run"
    /\ calls' = Append(calls, [host |-> Host,
                               port |-> globals["port"],
                               debug |-> globals["debug_mode"]])
    /\ pc' = "serving"
    /\ trace' = Append(trace, "app.run")
    /\ UNCHANGED <<environ, name, globals, err>>

\* variant: the serve call is retried after an error
ServeEnd_Retry ==
    /\ pc = "serving"
    /\ \E e \in {"none", "ServeError"} :
          /\ err' = e
          /\ pc' = IF e = "none" THEN "done" ELSE "app_run"
    /\ trace' = Append(trace, "serve_end")
    /\ UNCHANGED <<environ, name, globals, calls>>

\* the blocking serve call ends: external termination or an error raised by it
ServeEnd ==
    /\ pc = "serving"
    /\ \E e \in {"none", "ServeError"} : err' = e
    /\ pc' = "done"
    /\ trace' = Append(trace, "serve_end")
    /\ UNCHANGED <<environ, name, globals, calls>>

Next ==
    \/ CreateApp
    \/ MainCheck
    \/ ReadPort
    \/ ReadFlaskEnv
    \/ AppRun
    \/ ServeEnd

Spec == Init /\ [][Next]_vars

----------------------------------------------------------------------------
(* Vocabulary of the properties *)

IsMain == name = "__main__"

PortSet == "PORT" \in DOMAIN environ

FlaskEnvSet == "FLASK_ENV" \in DOMAIN environ

AppBound == "app" \in DOMAIN globals

Occurs(e) == {i \in 1..Len(trace) : trace[i] = e}

\* every occurrence of b is preceded by an occurrence of a
Precedes(a, b) == \A j \in Occurs(b) : \E i \in Occurs(a) : i < j

\* a decimal integer literal: optional sign followed by one or more digits
IntegerString(s) ==
    LET ds == IF s # <<>> /\ s[1] \in {"+", "-"} THEN Tail(s) ELSE s
    IN  ds # <<>> /\ \A i \in 1..Len(ds) : IsDigit(ds[i])

RECURSIVE PlaceSum(_, _)
PlaceSum(ds, i) ==
    IF i > Len(ds) THEN 0
    ELSE DigitVal(ds[i]) * 10 ^ (Len(ds) - i) + PlaceSum(ds, i + 1)

\* positional value of an integer string
IntegerValue(s) ==
    IF s[1] = "-" THEN 0 - PlaceSum(Tail(s), 1)
    ELSE IF s[1] = "+" THEN PlaceSum(Tail(s), 1)
    ELSE PlaceSum(s, 1)

\* a string that holds no digit at all, or holds a letter
NonNumeric(s) ==
    \/ \A i \in 1..Len(s) : ~IsDigit(s[i])
    \/ \E i \in 1..Len(s) : s[i] = "a"

\* the module body has run past the factory call without a factory failure
FactorySucceeded == AppBound

----------------------------------------------------------------------------
\* C1 (as stated): in a run as the main program the environment is read
\* before create_app is invoked, and create_app is invoked before app.run.
C1_EnvReadBeforeFactory ==
    IsMain => /\ Precedes("read_PORT", "create_app")
              /\ Precedes("read_FLASK_ENV", "create_app")
              /\ Precedes("create_app", "app.run")

\* C1 (amended): in a run as the main program create_app is invoked first,
\* then PORT is read, then FLASK_ENV is read, then app.run is called.
C1_FactoryThenEnvThenRun ==
    IsMain => /\ Precedes("create_app", "read_PORT")
              /\ Precedes("read_PORT", "read_FLASK_ENV")
              /\ Precedes("read_FLASK_ENV", "app.run")

C1_Witness ==
    /\ IsMain
    /\ trace = <<"create_app", "read_PORT", "read_FLASK_ENV", "app.run">>

\* C2: for every non-numeric PORT a run as the main program (whose factory
\* succeeded) ends in a failure reported as a configuration error, and app.run
\* is never called.
C2_NonNumericPortIsConfigurationError ==
    (IsMain /\ PortSet /\ NonNumeric(environ["PORT"]) /\ FactorySucceeded /\ pc = "done")
        => (err = "ConfigurationError" /\ calls = <<>>)

\* C3: for every integer string p, a run as the main program with PORT=p and
\* a succeeding factory calls app.run with port exactly int(p), whatever
\* FLASK_ENV is.
C3_PortIsIntOfString ==
    (IsMain /\ PortSet /\ IntegerString(environ["PORT"]) /\ FactorySucceeded
        /\ pc \in {"serving", "done"})
        => (Len(calls) = 1 /\ calls[1].port = IntegerValue(environ["PORT"]))

C3_Witness ==
    /\ IsMain
    /\ PortSet /\ environ["PORT"] = <<"-", "7", "0">>
    /\ FlaskEnvSet
    /\ Len(calls) = 1 /\ calls[1].port = 0 - 70

\* C4: when PORT is unset a run as the main program resolves the port to 5000
\* and calls app.run with port 5000; with FLASK_ENV unset as well the call is
\* on 0.0.0.0:5000 with debug disabled.
C4_DefaultPort ==
    (IsMain /\ ~PortSet) =>
        /\ "port" \in DOMAIN globals => globals["port"] = 5000
        /\ (FactorySucceeded /\ pc \in {"serving", "done"}) => Len(calls) = 1
        /\ \A i \in 1..Len(calls) :
              /\ calls[i].port = 5000
              /\ ~FlaskEnvSet => calls[i] = [host |-> "0.0.0.0", port |-> 5000, debug |-> FALSE]

C4_Witness ==
    /\ IsMain /\ ~PortSet /\ ~FlaskEnvSet
    /\ calls = <<[host |-> "0.0.0.0", port |-> 5000, debug |-> FALSE]>>

\* C5: whenever app.run is reached, debug is true exactly when FLASK_ENV is
\* set and equals "development"; any other value, or an unset FLASK_ENV,
\* gives debug false.
C5_DebugIffDevelopment ==
    \A i \in 1..Len(calls) :
        calls[i].debug = (FlaskEnvSet /\ environ["FLASK_ENV"] = "development")

C5_Witness ==
    /\ FlaskEnvSet /\ environ["FLASK_ENV"] = "development"
    /\ Len(calls) = 1 /\ calls[1].debug = TRUE

\* C6: when the module is imported, the factory is invoked, the app object is
\* bound when the factory returns, and app.run is never called.
C6_ImportConstructsWithoutServing ==
    ~IsMain =>
        /\ calls = <<>>
        /\ pc # "create_app" => trace = <<"create_app">>
        /\ (pc = "done" /\ err = "none") => AppBound

C6_Witness ==
    /\ ~IsMain /\ pc = "done" /\ AppBound
    /\ PortSet /\ FlaskEnvSet
    /\ trace = <<"create_app">> /\ calls = <<>>

\* C7: if create_app fails, the failure propagates uncaught and the execution
\* stops there: app.run is never called, in main and in import mode.
C7_FactoryFailureAborts ==
    (trace # <<>> /\ ~AppBound) =>
        /\ pc = "done"
        /\ err = "FactoryError"
        /\ trace = <<"create_app">>
        /\ calls = <<>>

C7_Witness ==
    /\ IsMain /\ err = "FactoryError" /\ pc = "done" /\ calls = <<>>
    /\ PortSet /\ PyInt(environ["PORT"]).ok

\* C8: no retry: app.run is called at most once, the factory at most once, and
\* nothing happens after the serve call has ended.
C8_NoRetry ==
    /\ Len(calls) <= 1
    /\ Cardinality(Occurs("app.run")) <= 1
    /\ Cardinality(Occurs("create_app")) <= 1
    /\ \A i \in Occurs("serve_end") : i = Len(trace)

C8_Witness ==
    /\ pc = "done" /\ err = "ServeError"
    /\ Len(calls) = 1
    /\ trace[Len(trace)] = "serve_end"

\* C9: every app.run call has host "0.0.0.0", whatever the environment is.
C9_HostAllInterfaces ==
    \A i \in 1..Len(calls) : calls[i].host = "0.0.0.0"

C9_Witness ==
    /\ Len(calls) = 1 /\ calls[1].host = "0.0.0.0"
    /\ calls[1].debug = TRUE /\ calls[1].port # 5000

\* C10: in import mode PORT and FLASK_ENV are never read, so the outcome
\* depends on the factory only; an import with a non-numeric PORT succeeds.
C10_ImportIgnoresEnvironment ==
    ~IsMain =>
        /\ Occurs("read_PORT") = {} /\ Occurs("read_FLASK_ENV") = {}
        /\ DOMAIN globals \subseteq {"app"}
        /\ err \in {"none", "FactoryError"}
        /\ pc = "done" => (err = "none" <=> AppBound)

C10_Witness ==
    /\ ~IsMain /\ pc = "done" /\ err = "none" /\ AppBound
    /\ PortSet /\ NonNumeric(environ["PORT"]) /\ ~PyInt(environ["PORT"]).ok

====
